---- MODULE Spec2Model ----
(***************************************************************************)
(* A model of the python-cli of myyearwithgit: the history extraction      *)
(* layer (git_parser.py, main.analyze_repos) and the aggregation engine    *)
(* (statistics.py).                                                        *)
(*                                                                         *)
(* Conventions.  A Python dict is a sequence of <<key, value>> pairs in    *)
(* insertion order (max() and Counter ties depend on that order).  A       *)
(* Python str whose content the code inspects is modelled by its content:  *)
(* a "%Y-%m-%d" string is the tuple of its eight digits, a datetime is the  *)
(* record of its fields.  Strings of Chinese characters are written in     *)
(* pinyin, the source text is given in the comment beside them.            *)
(***************************************************************************)
EXTENDS Integers, Sequences, FiniteSets, TLC

VARIABLES
    \* main() / analyze_repos()
    pc,             \* position of main(): "log", "commits", "analyze", "display", "export", "done", "interrupted"
    repos,          \* the selected repositories (their names), in order
    emails,         \* the author filter
    repoIdx,        \* index of the repository the for loop of analyze_repos is at
    commits,        \* result of parse_git_log for the current repository
    commitIdx,      \* index of the commit the inner for loop is at
    all_commits,    \* analyze_repos.all_commits
    seen_hashes,    \* analyze_repos.seen_hashes
    stats,          \* the YearStats main() holds (NoStats before analyze_commits)
    displayed,      \* display_stats was called
    exported,       \* export_to_markdown was called
    interruptedAt,  \* the position at which KeyboardInterrupt was raised, "" if none
    gitLog,         \* history: per repository visited, the log query's outcome and the parse result
    gitDiff,        \* history: per parse_git_diff call, the commit and the outcomes of its queries
    \* calls of the pure functions on drawn inputs
    fn,             \* which function the call specifications exercise
    arg,            \* its argument
    ret             \* its result (NoResult before the call)

vars == <<pc, repos, emails, repoIdx, commits, commitIdx, all_commits, seen_hashes,
          stats, displayed, exported, interruptedAt, gitLog, gitDiff, fn, arg, ret>>

mainVars == <<pc, repos, emails, repoIdx, commits, commitIdx, all_commits, seen_hashes,
              stats, displayed, exported, interruptedAt, gitLog, gitDiff>>

callVars == <<fn, arg, ret>>

(***************************************************************************)
(* Bounds of the model.                                                    *)
(***************************************************************************)
MaxRepos == 2

MaxCommits == 2

MaxDates == 4

WindowLen == 12

MaxRecords == 3

MaxMessages == 3

MaxLines == 3

MaxRepoCommits == 3

MaxHourCommits == 3

MaxDistinctHours == 2

----
(***************************************************************************)
(* Generic helpers.                                                        *)
(***************************************************************************)
RECURSIVE SeqsUpTo(_, _)
SeqsUpTo(S, n) ==
    IF n = 0 THEN {<<>>}
    ELSE LET shorter == SeqsUpTo(S, n - 1)
         IN  shorter \cup {Append(s, x) : s \in {t \in shorter : Len(t) = n - 1}, x \in S}

Range(s) == {s[i] : i \in 1..Len(s)}

RECURSIVE SumSeq(_)
SumSeq(s) == IF s = <<>> THEN 0 ELSE Head(s) + SumSeq(Tail(s))

RECURSIVE Concat(_)
Concat(ss) == IF ss = <<>> THEN <<>> ELSE Head(ss) \o Concat(Tail(ss))

None == "None"

----
(***************************************************************************)
(* str.lower, Path.suffix and str.strip on the strings of the model.       *)
(***************************************************************************)
Lower(s) ==
    CASE s = "A1" -> "a1"
      [] s = "B2" -> "b2"
      [] s = "C3" -> "c3"
      [] s = "Dev@X.io" -> "dev@x.io"
      [] s = ".PY" -> ".py"
      [] s = "Fix: Alpha" -> "fix: alpha"
      [] s = "Feature" -> "feature"
      [] OTHER -> s

Suffix(filename) ==
    CASE filename = "app.py" -> ".py"
      [] filename = "Main.PY" -> ".PY"
      [] filename = "README.md" -> ".md"
      [] filename = "conf.json" -> ".json"
      [] filename = "web.js" -> ".js"
      [] filename = "logo.png" -> ".png"
      [] OTHER -> ""

\* The characters of the messages of the model that begin or end with
\* whitespace, and of what str.strip() makes of them.  In the name of a message
\* "\n" is written as the letter N at its end.
MessageChars ==
    ("add apiN" :> <<"a", "d", "d", " ", "a", "p", "i", "\n">>)
    @@ (" add api NN" :> <<" ", "a", "d", "d", " ", "a", "p", "i", " ", "\n", "\n">>)
    @@ ("add  apiNN" :> <<"a", "d", "d", " ", " ", "a", "p", "i", "\n", "\n">>)
    @@ ("bump depsN" :> <<"b", "u", "m", "p", " ", "d", "e", "p", "s", "\n">>)
    @@ ("add api" :> <<"a", "d", "d", " ", "a", "p", "i">>)
    @@ ("add  api" :> <<"a", "d", "d", " ", " ", "a", "p", "i">>)
    @@ ("bump deps" :> <<"b", "u", "m", "p", " ", "d", "e", "p", "s">>)

Whitespace == {" ", "\n", "\t", "\r"}

RECURSIVE LStrip(_)
LStrip(chars) ==
    IF chars # <<>> /\ Head(chars) \in Whitespace THEN LStrip(Tail(chars)) ELSE chars

RECURSIVE RStrip(_)
RStrip(chars) ==
    IF chars # <<>> /\ chars[Len(chars)] \in Whitespace
    THEN RStrip(SubSeq(chars, 1, Len(chars) - 1))
    ELSE chars

\* str.strip(): the string without its leading and trailing whitespace; a
\* message that is not listed in MessageChars has none.
Strip(s) ==
    IF s \in DOMAIN MessageChars
    THEN LET chars == RStrip(LStrip(MessageChars[s]))
         IN  CHOOSE t \in DOMAIN MessageChars : MessageChars[t] = chars
    ELSE s

(***************************************************************************)
(* git_parser.py                                                           *)
(***************************************************************************)
\* The entries of LANGUAGE_MAP the model's file names reach.
LANGUAGE_MAP ==
    (".py" :> "Python") @@ (".js" :> "JavaScript") @@ (".json" :> "JSON") @@
    (".md" :> "Markdown")

get_language(filename) ==
    LET ext == Lower(Suffix(filename))
    IN  IF ext \in DOMAIN LANGUAGE_MAP THEN LANGUAGE_MAP[ext] ELSE None

FileDiff(filename, added_lines, deleted_lines) ==
    [filename |-> filename, language |-> get_language(filename),
     added_lines |-> added_lines, deleted_lines |-> deleted_lines]

CommitInfo(hash, email, date, message) ==
    [hash |-> hash, email |-> email, date |-> date, message |-> message,
     repo_name |-> "", files |-> <<>>]

\* run_git_command: (success, output).  A failure is a non-zero return code
\* (output is what git had printed by then), a timeout or a missing executable
\* (output is the text of the exception).
GitFailure(output) == [ok |-> FALSE, output |-> output]

GitSuccess(output) == [ok |-> TRUE, output |-> output]

\* datetime.fromisoformat(date_str.replace("Z", "+00:00")): a date_str is the
\* datetime it denotes, or text that raises ValueError.
IsoParses(date_str) == date_str.valid

fromisoformat(date_str) == date_str.dt

\* A variant of LogRecord that compares the email as the log wrote it.
LogRecordFilteringRawEmail(st, record, filter) ==
    LET commit_hash == Lower(record.hash)
        email       == Lower(record.email)
        message     == Strip(record.message)
    IN  IF record.nparts < 4 THEN st
        ELSE IF filter # {} /\ record.email \notin filter THEN st
        ELSE IF commit_hash \in st.seen_hashes THEN st
        ELSE IF ~IsoParses(record.date_str)
             THEN [st EXCEPT !.seen_hashes = @ \cup {commit_hash}]
        ELSE [commits |-> Append(st.commits,
                                 CommitInfo(commit_hash, email,
                                            fromisoformat(record.date_str), message)),
              seen_hashes |-> st.seen_hashes \cup {commit_hash}]

\* One iteration of the for loop of parse_git_log over a record of
\* output.split("\x00\x00"); nparts is len(record.split("\x00", 3)) and 0 for a
\* record that strip() empties.  st is [commits, seen_hashes].
LogRecord(st, record, filter) ==
    LET commit_hash == Lower(record.hash)
        email       == Lower(record.email)
        message     == Strip(record.message)
    IN  IF record.nparts = 0 THEN st
        ELSE IF record.nparts < 4 THEN st
        ELSE IF filter # {} /\ email \notin filter THEN st
        ELSE IF commit_hash \in st.seen_hashes THEN st
        ELSE IF ~IsoParses(record.date_str)
             THEN [st EXCEPT !.seen_hashes = @ \cup {commit_hash}]
        ELSE [commits |-> Append(st.commits,
                                 CommitInfo(commit_hash, email,
                                            fromisoformat(record.date_str), message)),
              seen_hashes |-> st.seen_hashes \cup {commit_hash}]

RECURSIVE LogLoop(_, _, _)
LogLoop(st, records, filter) ==
    IF records = <<>> THEN st
    ELSE LogLoop(LogRecord(st, Head(records), filter), Tail(records), filter)

\* A variant of parse_git_log that reads the output of a failed query.
parse_git_log_ignoring_failure(result, filter) ==
    LogLoop([commits |-> <<>>, seen_hashes |-> {}], result.output, filter).commits

\* parse_git_log on the outcome of the log query; a successful output is the
\* sequence of its records, <<>> the output that output.strip() empties.
parse_git_log(result, filter) ==
    IF ~result.ok \/ result.output = <<>>
    THEN <<>>
    ELSE LogLoop([commits |-> <<>>, seen_hashes |-> {}], result.output, filter).commits

\* A field of a numstat line: a decimal number, the "-" of a binary file, or
\* other text.
Num(n) == [kind |-> "num", n |-> n]

Dash == [kind |-> "dash", n |-> 0]

Junk == [kind |-> "junk", n |-> 0]

NumstatLine(added, deleted, filename) ==
    [nparts |-> 3, added |-> added, deleted |-> deleted, filename |-> filename]

\* str(e) of a timeout, read as a numstat line: one field, no tab.
ExceptionText == [nparts |-> 1, added |-> Junk, deleted |-> Junk, filename |-> ""]

\* int(field) if field != "-" else 0; raises ValueError on other text.
IntOrDash(field) == IF field.kind = "dash" THEN 0 ELSE field.n

\* A variant of DiffLine that leaves the lines of binary files out.
DiffLineOmittingBinary(files, line) ==
    IF line.nparts < 3 THEN files
    ELSE IF line.added.kind # "num" \/ line.deleted.kind # "num" THEN files
    ELSE Append(files, FileDiff(line.filename, line.added.n, line.deleted.n))

\* One iteration of the for loop of parse_git_diff over a line of the output;
\* nparts is len(line.split("\t")) and 0 for an empty line.
DiffLine(files, line) ==
    IF line.nparts = 0 THEN files
    ELSE IF line.nparts < 3 THEN files
    ELSE IF line.added.kind = "junk" \/ line.deleted.kind = "junk" THEN files
    ELSE Append(files, FileDiff(line.filename, IntOrDash(line.added), IntOrDash(line.deleted)))

RECURSIVE DiffLoop(_, _)
DiffLoop(files, lines) ==
    IF lines = <<>> THEN files ELSE DiffLoop(DiffLine(files, Head(lines)), Tail(lines))

\* A variant of DiffQueryUsed without the empty-tree query.
DiffQueryWithoutFallback(q1, q2) == q1

\* The query whose output parse_git_diff reads: the empty-tree query replaces
\* the first-parent query whenever the latter fails.
DiffQueryUsed(q1, q2) == IF ~q1.ok THEN q2 ELSE q1

\* parse_git_diff on the outcomes of "git diff <hash>^! --numstat" (q1) and of
\* "git diff --numstat <empty tree> <hash>" (q2, run only when q1 failed).
parse_git_diff(q1, q2) ==
    LET r == DiffQueryUsed(q1, q2)
    IN  IF ~r.ok \/ \A i \in 1..Len(r.output) : r.output[i].nparts = 0
        THEN <<>>
        ELSE DiffLoop(<<>>, r.output)

----
(***************************************************************************)
(* The repositories the model runs on.  A hash names one commit whatever   *)
(* repository holds it, so what git reports about a commit is a function   *)
(* of its hash: a1 is a root commit with a source file and a binary file,  *)
(* b2 has a parent, c3 is a root commit that touches no file.              *)
(***************************************************************************)
Hashes == {"a1", "b2", "c3"}

IsRoot(h) == h \in {"a1", "c3"}

\* numstat of the commit against the empty tree: every file of its tree.
EmptyTreeDiff(h) ==
    CASE h = "a1" -> <<NumstatLine(Num(10), Num(0), "app.py"),
                       NumstatLine(Dash, Dash, "logo.png")>>
      [] h = "b2" -> <<NumstatLine(Num(12), Num(0), "app.py"),
                       NumstatLine(Dash, Dash, "logo.png"),
                       NumstatLine(Num(5), Num(0), "README.md")>>
      [] OTHER    -> <<>>

\* numstat of the commit against its first parent.
FirstParentDiff(h) ==
    CASE h = "b2" -> <<NumstatLine(Num(3), Num(1), "app.py"),
                       NumstatLine(Num(5), Num(0), "README.md")>>
      [] OTHER    -> EmptyTreeDiff(h)

\* The outcomes of "git diff <hash>^! --numstat".  With a parent: the diff, or a
\* failure (a timeout).  Without: the code expects git to fail; a git that
\* resolves <root>^! to the root alone succeeds and reports the difference to
\* the working tree, here a clean one and one that differs in a file.
FirstParentQuery(h) ==
    IF IsRoot(h)
    THEN {GitFailure(<<>>), GitSuccess(<<NumstatLine(Num(1), Num(1), "web.js")>>)}
    ELSE {GitFailure(<<ExceptionText>>), GitSuccess(FirstParentDiff(h))}

\* The outcomes of "git diff --numstat <empty tree> <hash>".
EmptyTreeQuery(h) == {GitFailure(<<ExceptionText>>), GitSuccess(EmptyTreeDiff(h))}

\* A datetime is a date, an hour (on the hour) and the UTC offset tz, in hours,
\* of its zone.
Jan05 == [y |-> 2024, m |-> 1, d |-> 5, hour |-> 9, tz |-> 8]

Jan06 == [y |-> 2024, m |-> 1, d |-> 6, hour |-> 23, tz |-> 8]

DateOf(h) == IF h = "b2" THEN Jan06 ELSE Jan05

AuthorOf(h) == IF h = "c3" THEN "bot@x.io" ELSE "dev@x.io"

LogEntry(hash) ==
    [nparts |-> 4, hash |-> hash, email |-> AuthorOf(hash),
     date_str |-> [valid |-> TRUE, dt |-> DateOf(hash)], message |-> "add apiN"]

\* The records a log query of main() may print.
MainRecords == {LogEntry(h) : h \in Hashes}

\* What "git log --all" may print for a repository: some of the commits, each
\* once, in any order.
Histories ==
    UNION {{o \in [1..Cardinality(S) -> S] : Range(o) = S} : S \in SUBSET MainRecords}

\* The outcomes of the log query: the history, or a failure after git printed
\* nothing or one record.
LogQuery ==
    {GitSuccess(o) : o \in Histories}
    \cup {GitFailure(o) : o \in {h \in Histories : Len(h) <= 1}}

\* A Path is the sequence of its components below the root of the file
\* system; Path("/") has none.
RootPath == <<>>

\* Path.name: the final component, the empty string for the root.
PathName(path) == IF path = <<>> THEN "" ELSE path[Len(path)]

\* The repositories found below a directory, in the order of the selection.
RepoPaths == <<<<"src", "app">>, <<"src", "lib">>, <<"src", "cli">>, <<"src", "web">>>>

----
(***************************************************************************)
(* datetime: dates, their ordinals and their "%Y-%m-%d" strings.           *)
(***************************************************************************)
Date(y, m, d) == [y |-> y, m |-> m, d |-> d]

IsLeap(y) == (y % 4 = 0 /\ y % 100 # 0) \/ y % 400 = 0

DaysInMonth(y, m) ==
    IF m = 2 THEN (IF IsLeap(y) THEN 29 ELSE 28)
    ELSE IF m \in {4, 6, 9, 11} THEN 30 ELSE 31

RECURSIVE DaysBeforeMonth(_, _)
DaysBeforeMonth(y, m) ==
    IF m = 1 THEN 0 ELSE DaysBeforeMonth(y, m - 1) + DaysInMonth(y, m - 1)

\* date.toordinal(): the subtraction of two dates is that of their ordinals.
ToOrdinal(dt) ==
    LET y1 == dt.y - 1
    IN  365 * y1 + (y1 \div 4) - (y1 \div 100) + (y1 \div 400)
        + DaysBeforeMonth(dt.y, dt.m) + dt.d

\* date - timedelta(days=1)
MinusOneDay(dt) ==
    IF dt.d > 1 THEN Date(dt.y, dt.m, dt.d - 1)
    ELSE IF dt.m > 1 THEN Date(dt.y, dt.m - 1, DaysInMonth(dt.y, dt.m - 1))
    ELSE Date(dt.y - 1, 12, 31)

\* date + timedelta(days=1)
PlusOneDay(dt) ==
    IF dt.d < DaysInMonth(dt.y, dt.m) THEN Date(dt.y, dt.m, dt.d + 1)
    ELSE IF dt.m < 12 THEN Date(dt.y, dt.m + 1, 1)
    ELSE Date(dt.y + 1, 1, 1)

RECURSIVE PlusDays(_, _)
PlusDays(dt, n) == IF n = 0 THEN dt ELSE PlusDays(PlusOneDay(dt), n - 1)

\* strftime("%Y-%m-%d"): the eight digits of the string.
Strftime(dt) ==
    <<dt.y \div 1000, (dt.y \div 100) % 10, (dt.y \div 10) % 10, dt.y % 10,
      dt.m \div 10, dt.m % 10, dt.d \div 10, dt.d % 10>>

\* datetime.strptime(s, "%Y-%m-%d").date()
Strptime(s) ==
    Date(1000 * s[1] + 100 * s[2] + 10 * s[3] + s[4], 10 * s[5] + s[6], 10 * s[7] + s[8])

\* datetime.weekday(): 0 is Monday, 6 is Sunday.
Weekday(dt) == (ToOrdinal(dt) + 6) % 7

\* datetime.timetuple().tm_yday
DayOfYear(dt) == ToOrdinal(dt) - ToOrdinal(Date(dt.y, 1, 1)) + 1

DateLess(a, b) == ToOrdinal(a) < ToOrdinal(b)

\* The instant of an aware datetime, in hours: aware datetimes compare by
\* their UTC time.
Instant(dt) == ToOrdinal(dt) * 24 + dt.hour - dt.tz

\* strftime("%Y-%m-%d %H:%M"): the digits of the string, in the zone of the
\* datetime.
StrftimeMinute(dt) == Strftime(dt) \o <<dt.hour \div 10, dt.hour % 10, 0, 0>>

\* a < b for two strings of digits of one length.
StrLess(a, b) ==
    \E i \in 1..Len(a) : a[i] < b[i] /\ \A j \in 1..(i - 1) : a[j] = b[j]

\* list.sort() of datetimes, on <<element, instant>> pairs: a stable ascending
\* sort.
RECURSIVE InsertByInstant(_, _)
InsertByInstant(sorted, x) ==
    IF sorted = <<>> THEN <<x>>
    ELSE IF Head(sorted)[2] <= x[2]
         THEN <<Head(sorted)>> \o InsertByInstant(Tail(sorted), x)
         ELSE <<x>> \o sorted

RECURSIVE SortByInstant(_, _)
SortByInstant(done, rest) ==
    IF rest = <<>> THEN done
    ELSE SortByInstant(InsertByInstant(done, Head(rest)), Tail(rest))

\* list.sort(key=lambda x: x[0]) of (date_str, message) pairs: a stable
\* ascending sort by the string.
RECURSIVE InsertByString(_, _)
InsertByString(sorted, x) ==
    IF sorted = <<>> THEN <<x>>
    ELSE IF ~StrLess(x[1], Head(sorted)[1])
         THEN <<Head(sorted)>> \o InsertByString(Tail(sorted), x)
         ELSE <<x>> \o sorted

RECURSIVE SortByString(_, _)
SortByString(done, rest) ==
    IF rest = <<>> THEN done
    ELSE SortByString(InsertByString(done, Head(rest)), Tail(rest))

\* sorted(...) of a set of dates
RECURSIVE SortedDates(_)
SortedDates(S) ==
    IF S = {} THEN <<>>
    ELSE LET least == CHOOSE a \in S : \A b \in S : ~DateLess(b, a)
         IN  <<least>> \o SortedDates(S \ {least})

----
(***************************************************************************)
(* dict and Counter, as sequences of <<key, value>> in insertion order.    *)
(***************************************************************************)
Keys(dict) == {dict[i][1] : i \in 1..Len(dict)}

Get(dict, key, default) ==
    IF key \in Keys(dict)
    THEN dict[CHOOSE i \in 1..Len(dict) : dict[i][1] = key][2]
    ELSE default

\* dict[key] = dict.get(key, 0) + n
AddTo(dict, key, n) ==
    IF key \in Keys(dict)
    THEN [i \in 1..Len(dict) |->
            IF dict[i][1] = key THEN <<key, dict[i][2] + n>> ELSE dict[i]]
    ELSE Append(dict, <<key, n>>)

\* Counter.update(words)
RECURSIVE Update(_, _)
Update(counter, words) ==
    IF words = <<>> THEN counter
    ELSE Update(AddTo(counter, Head(words), 1), Tail(words))

\* max(dict.items(), key=value): the first item of the largest value.
MaxItem(dict) ==
    dict[CHOOSE i \in 1..Len(dict) :
            /\ \A j \in 1..Len(dict) : dict[j][2] <= dict[i][2]
            /\ \A j \in 1..(i - 1) : dict[j][2] < dict[i][2]]

\* A stable sort of <<element, key>> pairs by descending key
\* (list.sort(key=..., reverse=True) and Counter.most_common keep the order of
\* equal elements): each pair is inserted behind the pairs that are not smaller.
RECURSIVE InsertDesc(_, _)
InsertDesc(sorted, x) ==
    IF sorted = <<>> THEN <<x>>
    ELSE IF Head(sorted)[2] >= x[2]
         THEN <<Head(sorted)>> \o InsertDesc(Tail(sorted), x)
         ELSE <<x>> \o sorted

RECURSIVE SortDesc(_, _)
SortDesc(done, rest) ==
    IF rest = <<>> THEN done
    ELSE SortDesc(InsertDesc(done, Head(rest)), Tail(rest))

Take(s, n) == IF Len(s) <= n THEN s ELSE SubSeq(s, 1, n)

\* A variant of most_common that ranks, among equal counts, the item inserted
\* last first.
RECURSIVE InsertDescLastFirst(_, _)
InsertDescLastFirst(sorted, x) ==
    IF sorted = <<>> THEN <<x>>
    ELSE IF Head(sorted)[2] > x[2]
         THEN <<Head(sorted)>> \o InsertDescLastFirst(Tail(sorted), x)
         ELSE <<x>> \o sorted

RECURSIVE SortDescLastFirst(_, _)
SortDescLastFirst(done, rest) ==
    IF rest = <<>> THEN done
    ELSE SortDescLastFirst(InsertDescLastFirst(done, Head(rest)), Tail(rest))

most_common_last_first(counter, n) == Take(SortDescLastFirst(<<>>, counter), n)

\* Counter.most_common(n)
most_common(counter, n) == Take(SortDesc(<<>>, counter), n)

----
(***************************************************************************)
(* statistics.py                                                           *)
(***************************************************************************)
DEFAULT_EXCLUDE_LANGUAGES == {"Markdown", "JSON", "YAML", "XML", "reStructuredText"}

\* re.sub(r'[^\w\s\u4e00-\u9fff]', ' ', text.lower()).split() on the messages of
\* the model.
Split(text) ==
    CASE text = "add api" -> <<"add", "api">>
      [] text = "bump deps" -> <<"bump", "deps">>
      [] text = "api: v2 of api" -> <<"api", "v2", "of", "api">>
      [] text = "alpha beta" -> <<"alpha", "beta">>
      [] text = "beta alpha" -> <<"beta", "alpha">>
      [] text = "Fix: Alpha" -> <<"fix", "alpha">>
      [] text = "gamma delta" -> <<"gamma", "delta">>
      [] text = "Feature" -> <<"feature">>
      [] text = "docs" -> <<"docs">>
      [] text = "bugfix" -> <<"bugfix">>
      [] text = "build" -> <<"build">>
      [] text = "k01 k02 k03 k04 k05 k06 k07 k08 k09 k10 k11 k12 k13 k14 k15 k16 k17 k18 k19" ->
            <<"k01", "k02", "k03", "k04", "k05", "k06", "k07", "k08", "k09", "k10",
              "k11", "k12", "k13", "k14", "k15", "k16", "k17", "k18", "k19">>
      [] OTHER -> <<>>

\* The words of the model with len(w) <= 2.
ShortWords == {"v2", "of"}

\* The stop words the model's messages reach.
stop_words == {"add", "of", "fix", "update"}

extract_words(text) ==
    SelectSeq(Split(text), LAMBDA w : w \notin ShortWords /\ w \notin stop_words)

\* A variant of StreakLoop that does not restart the run at a gap.
RECURSIVE StreakLoopWithoutReset(_, _, _, _)
StreakLoopWithoutReset(dates, i, current, max_streak) ==
    IF i > Len(dates) THEN max_streak
    ELSE IF ToOrdinal(dates[i]) - ToOrdinal(dates[i - 1]) = 1
         THEN StreakLoopWithoutReset(dates, i + 1, current + 1,
                                     IF current + 1 > max_streak THEN current + 1
                                     ELSE max_streak)
         ELSE StreakLoopWithoutReset(dates, i + 1, current, max_streak)

\* The first for loop of calculate_streak, from index i on.
RECURSIVE StreakLoop(_, _, _, _)
StreakLoop(dates, i, current, max_streak) ==
    IF i > Len(dates) THEN max_streak
    ELSE IF ToOrdinal(dates[i]) - ToOrdinal(dates[i - 1]) = 1
         THEN StreakLoop(dates, i + 1, current + 1,
                         IF current + 1 > max_streak THEN current + 1 ELSE max_streak)
         ELSE StreakLoop(dates, i + 1, 1, max_streak)

\* The while loop of calculate_streak.
RECURSIVE CurrentStreakLoop(_, _, _)
CurrentStreakLoop(active_dates, check_date, current_streak) ==
    IF Strftime(check_date) \in active_dates
    THEN CurrentStreakLoop(active_dates, MinusOneDay(check_date), current_streak + 1)
    ELSE current_streak

\* A variant of calculate_streak that walks back from the latest active date.
calculate_streak_from_latest(active_dates, today) ==
    IF active_dates = {} THEN <<0, 0>>
    ELSE LET dates == SortedDates({Strptime(d) : d \in active_dates})
         IN  <<StreakLoop(dates, 2, 1, 1),
               CurrentStreakLoop(active_dates, dates[Len(dates)], 0)>>

\* A variant of calculate_streak whose longest run starts at 0.
calculate_streak_starting_at_zero(active_dates, today) ==
    IF active_dates = {} THEN <<0, 0>>
    ELSE LET dates == SortedDates({Strptime(d) : d \in active_dates})
         IN  <<StreakLoop(dates, 2, 1, 0), CurrentStreakLoop(active_dates, today, 0)>>

\* calculate_streak(active_dates, year), today being date.today():
\* <<max_streak, current_streak>>.
calculate_streak(active_dates, today) ==
    IF active_dates = {} THEN <<0, 0>>
    ELSE LET dates == SortedDates({Strptime(d) : d \in active_dates})
         IN  <<StreakLoop(dates, 2, 1, 1), CurrentStreakLoop(active_dates, today, 0)>>

\* A variant of VolumeBadge whose top tier starts above 1,000,000.
VolumeBadgeWithHigherTopTier(st) ==
    LET score == st.total_commits * 10 + st.total_added_lines
    IN  IF score > 1000000 THEN <<<<"JuanWangBenWang", 0>>>>
        ELSE IF score > 10000 THEN <<<<"FaFenTuQiang", 0>>>>
        ELSE IF score > 1000 THEN <<<<"QinLaoNuLi", 0>>>>
        ELSE IF score > 500 THEN <<<<"XiaoShiNiuDao", 0>>>>
        ELSE <<<<"XiuYangShengXi", 0>>>>

\* A badge is <<name, the number its description shows (0 if none)>>.
\* JuanWangBenWang, FaFenTuQiang, QinLaoNuLi, XiaoShiNiuDao, XiuYangShengXi are
\* the badges of lines 358, 360, 362, 364, 366.
VolumeBadge(st) ==
    LET score == st.total_commits * 10 + st.total_added_lines
    IN  IF score > 100000 THEN <<<<"JuanWangBenWang", 0>>>>
        ELSE IF score > 10000 THEN <<<<"FaFenTuQiang", 0>>>>
        ELSE IF score > 1000 THEN <<<<"QinLaoNuLi", 0>>>>
        ELSE IF score > 500 THEN <<<<"XiaoShiNiuDao", 0>>>>
        ELSE <<<<"XiuYangShengXi", 0>>>>

\* Lines 370, 372.
LanguageBadge(st) ==
    IF Len(st.languages) >= 10 THEN <<<<"QuanZhanDaShen", Len(st.languages)>>>>
    ELSE IF Len(st.languages) >= 6 THEN <<<<"BianChengYuYanDaShi", Len(st.languages)>>>>
    ELSE <<>>

\* A variant of HourBadge whose last window ends before 23.
HourBadgeWithShortNight(st) ==
    IF st.commits_by_hour = <<>> THEN <<>>
    ELSE LET favorite_hour == MaxItem(st.commits_by_hour)[1]
         IN  IF 0 <= favorite_hour /\ favorite_hour < 5 THEN <<<<"YeMaoZi", 0>>>>
             ELSE IF 5 <= favorite_hour /\ favorite_hour < 10
                  THEN <<<<"ZaoShuiZaoQiShenTiHao", 0>>>>
             ELSE IF 10 <= favorite_hour /\ favorite_hour < 14
                  THEN <<<<"GanFanRenGanFanHun", 0>>>>
             ELSE IF 14 <= favorite_hour /\ favorite_hour < 17
                  THEN <<<<"XiaWuChaShiJian", 0>>>>
             ELSE IF 17 <= favorite_hour /\ favorite_hour < 19
                  THEN <<<<"WanCanQianChongCi", 0>>>>
             ELSE IF 19 <= favorite_hour /\ favorite_hour < 23
                  THEN <<<<"YeJianMoShi", 0>>>>
             ELSE <<>>

\* Lines 375-388.
HourBadge(st) ==
    IF st.commits_by_hour = <<>> THEN <<>>
    ELSE LET favorite_hour == MaxItem(st.commits_by_hour)[1]
         IN  IF 0 <= favorite_hour /\ favorite_hour < 5 THEN <<<<"YeMaoZi", 0>>>>
             ELSE IF 5 <= favorite_hour /\ favorite_hour < 10
                  THEN <<<<"ZaoShuiZaoQiShenTiHao", 0>>>>
             ELSE IF 10 <= favorite_hour /\ favorite_hour < 14
                  THEN <<<<"GanFanRenGanFanHun", 0>>>>
             ELSE IF 14 <= favorite_hour /\ favorite_hour < 17
                  THEN <<<<"XiaWuChaShiJian", 0>>>>
             ELSE IF 17 <= favorite_hour /\ favorite_hour < 19
                  THEN <<<<"WanCanQianChongCi", 0>>>>
             ELSE <<<<"YeJianMoShi", 0>>>>

\* Lines 391-394.
WeekendBadge(st) ==
    IF st.weekend_days > 40 THEN <<<<"ZhouMoYongDongJi", st.weekend_days>>>>
    ELSE IF st.weekend_days > 20 THEN <<<<"ZhouMoZhanShi", st.weekend_days>>>>
    ELSE <<>>

\* Lines 397-400.
PeakBadge(st) ==
    IF st.most_active_date_commits > 100
    THEN <<<<"DaiMaKuangRen", st.most_active_date_commits>>>>
    ELSE IF st.most_active_date_commits > 50
         THEN <<<<"BugfixZhiZaoJi", st.most_active_date_commits>>>>
    ELSE <<>>

\* A variant of StreakBadge that gives the badge of every tier reached.
StreakBadgeOfEveryTier(st) ==
    (IF st.max_streak >= 30 THEN <<<<"JianChiJiuShiShengLi", st.max_streak>>>> ELSE <<>>)
    \o (IF st.max_streak >= 14 THEN <<<<"LiangZhouLianJi", st.max_streak>>>> ELSE <<>>)
    \o (IF st.max_streak >= 7 THEN <<<<"YiZhouDaRen", st.max_streak>>>> ELSE <<>>)

\* Lines 403-408.
StreakBadge(st) ==
    IF st.max_streak >= 30 THEN <<<<"JianChiJiuShiShengLi", st.max_streak>>>>
    ELSE IF st.max_streak >= 14 THEN <<<<"LiangZhouLianJi", st.max_streak>>>>
    ELSE IF st.max_streak >= 7 THEN <<<<"YiZhouDaRen", st.max_streak>>>>
    ELSE <<>>

\* Lines 411-414.
ActiveBadge(st) ==
    IF st.active_days >= 300 THEN <<<<"QuanNianWuXiu", st.active_days>>>>
    ELSE IF st.active_days >= 200 THEN <<<<"LaoMoBenMo", st.active_days>>>>
    ELSE <<>>

\* Lines 417-423.
NetLinesBadge(st) ==
    LET net_lines == st.total_added_lines - st.total_deleted_lines
    IN  IF net_lines > 1000000 THEN <<<<"BaiWanDaiMa", net_lines>>>>
        ELSE IF net_lines > 100000 THEN <<<<"ShiWanHangJia", net_lines>>>>
        ELSE IF net_lines < -10000 THEN <<<<"DaiMaQingDaoFu", -net_lines>>>>
        ELSE <<>>

\* Lines 426-427; deleted > added * 0.8 in integers.
DeletionBadge(st) ==
    IF 10 * st.total_deleted_lines > 8 * st.total_added_lines
    THEN <<<<"ChongGouDaRen", 0>>>>
    ELSE <<>>

calculate_achievements(st) ==
    VolumeBadge(st) \o LanguageBadge(st) \o HourBadge(st) \o WeekendBadge(st)
    \o PeakBadge(st) \o StreakBadge(st) \o ActiveBadge(st) \o NetLinesBadge(st)
    \o DeletionBadge(st)

\* A variant of FileStep that counts the lines of the files whose language is
\* counted only.
FileStepOfCountedLanguages(acc, f, exclude_languages) ==
    IF f.language # None /\ f.language \notin exclude_languages
    THEN [added_lines   |-> acc.added_lines + f.added_lines,
          deleted_lines |-> acc.deleted_lines + f.deleted_lines,
          languages     |-> AddTo(acc.languages, f.language, f.added_lines)]
    ELSE acc

\* A variant of FileStep that counts the excluded languages too.
FileStepCountingEveryLanguage(acc, f, exclude_languages) ==
    [added_lines   |-> acc.added_lines + f.added_lines,
     deleted_lines |-> acc.deleted_lines + f.deleted_lines,
     languages     |-> IF f.language # None
                       THEN AddTo(acc.languages, f.language, f.added_lines)
                       ELSE acc.languages]

\* The for loop over commit.files, of analyze_commits (lines 115-121) and of
\* generate_repo_summaries (lines 218-223): acc is [added_lines,
\* deleted_lines, languages].
FileStep(acc, f, exclude_languages) ==
    [added_lines   |-> acc.added_lines + f.added_lines,
     deleted_lines |-> acc.deleted_lines + f.deleted_lines,
     languages     |-> IF f.language # None /\ f.language \notin exclude_languages
                       THEN AddTo(acc.languages, f.language, f.added_lines)
                       ELSE acc.languages]

RECURSIVE FilesLoop(_, _, _)
FilesLoop(acc, files, exclude_languages) ==
    IF files = <<>> THEN acc
    ELSE FilesLoop(FileStep(acc, Head(files), exclude_languages), Tail(files),
                   exclude_languages)

\* repo_commits of generate_repo_summaries: <<repo_name, list of commits>> in
\* the order the names are first met; a commit without a name is left out.
RECURSIVE GroupByRepo(_, _)
GroupByRepo(groups, cs) ==
    IF cs = <<>> THEN groups
    ELSE LET commit == Head(cs)
             name   == commit.repo_name
         IN  IF name = "" THEN GroupByRepo(groups, Tail(cs))
             ELSE IF name \in Keys(groups)
                  THEN GroupByRepo([i \in 1..Len(groups) |->
                                      IF groups[i][1] = name
                                      THEN <<name, Append(groups[i][2], commit)>>
                                      ELSE groups[i]], Tail(cs))
                  ELSE GroupByRepo(Append(groups, <<name, <<commit>>>>), Tail(cs))

\* work_patterns of analyze_main_work, in the order of the dict (lines 254-286):
\* <<pattern, work_type>>.  The patterns and work types written in Chinese are
\* named in pinyin, the patterns with the prefix "zh:"; no message of the model
\* holds a Chinese pattern.
work_patterns ==
    <<<<"feat", "XinGongNengKaiFa">>, <<"feature", "XinGongNengKaiFa">>,
      <<"zh:xinzeng", "XinGongNengKaiFa">>, <<"zh:tianjia", "XinGongNengKaiFa">>,
      <<"fix", "BugXiuFu">>, <<"bugfix", "BugXiuFu">>, <<"zh:xiufu", "BugXiuFu">>,
      <<"refactor", "DaiMaChongGou">>, <<"zh:chonggou", "DaiMaChongGou">>,
      <<"zh:youhua", "XingNengYouHua">>, <<"perf", "XingNengYouHua">>,
      <<"docs", "WenDangBianXie">>, <<"zh:wendang", "WenDangBianXie">>,
      <<"test", "CeShiXiangGuan">>, <<"zh:ceshi", "CeShiXiangGuan">>,
      <<"style", "DaiMaFengGe">>, <<"chore", "GongChengPeiZhi">>,
      <<"ci", "CICDPeiZhi">>, <<"build", "GouJianXiangGuan">>,
      <<"deploy", "BuShuXiangGuan">>, <<"zh:bushu", "BuShuXiangGuan">>,
      <<"api", "APIKaiFa">>, <<"zh:jiekou", "APIKaiFa">>,
      <<"ui", "UIKaiFa">>, <<"zh:jiemian", "UIKaiFa">>,
      <<"database", "ShuJuKuXiangGuan">>, <<"zh:shujuku", "ShuJuKuXiangGuan">>,
      <<"security", "AnQuanXiangGuan">>, <<"zh:anquan", "AnQuanXiangGuan">>,
      <<"auth", "RenZhengShouQuan">>, <<"zh:denglu", "RenZhengShouQuan">>>>

\* The patterns of work_patterns that are substrings of a lowercased message
\* of the model ("pattern in msg_lower").
PatternsIn(msg_lower) ==
    CASE msg_lower = "add api" -> {"api"}
      [] msg_lower = "api: v2 of api" -> {"api"}
      [] msg_lower = "fix: alpha" -> {"fix"}
      [] msg_lower = "feature" -> {"feat", "feature"}
      [] msg_lower = "bugfix" -> {"fix", "bugfix"}
      [] msg_lower = "docs" -> {"docs"}
      [] msg_lower = "build" -> {"build", "ui"}
      [] OTHER -> {}

\* The inner for loop of analyze_main_work over work_patterns: every pattern
\* found in the message adds 1 to its work type, in the order of the patterns.
PatternLoop(work_counter, msg_lower) ==
    LET found == SelectSeq(work_patterns, LAMBDA p : p[1] \in PatternsIn(msg_lower))
    IN  Update(work_counter, [i \in 1..Len(found) |-> found[i][2]])

RECURSIVE WorkLoop(_, _)
WorkLoop(work_counter, cs) ==
    IF cs = <<>> THEN work_counter
    ELSE WorkLoop(PatternLoop(work_counter, Lower(Head(cs).message)), Tail(cs))

analyze_main_work(cs) ==
    LET top == most_common(WorkLoop(<<>>, cs), 5)
    IN  [i \in 1..Len(top) |-> top[i][1]]

RECURSIVE RepoLoop(_, _, _)
RepoLoop(acc, repo_commit_list, exclude_languages) ==
    IF repo_commit_list = <<>> THEN acc
    ELSE LET commit == Head(repo_commit_list)
             lines  == FilesLoop([added_lines |-> acc.added_lines,
                                  deleted_lines |-> acc.deleted_lines,
                                  languages |-> acc.lang_counter],
                                 commit.files, exclude_languages)
         IN  RepoLoop([added_lines   |-> lines.added_lines,
                       deleted_lines |-> lines.deleted_lines,
                       lang_counter  |-> lines.languages,
                       word_counter  |-> Update(acc.word_counter,
                                                extract_words(commit.message))],
                      Tail(repo_commit_list), exclude_languages)

\* The RepoSummary of one repository (lines 199-243).
RepoSummary(repo_name, repo_commit_list, exclude_languages) ==
    LET acc == RepoLoop([added_lines |-> 0, deleted_lines |-> 0,
                         lang_counter |-> <<>>, word_counter |-> <<>>],
                        repo_commit_list, exclude_languages)
        top == most_common(acc.word_counter, 10)
        commit_dates ==
            SortByInstant(<<>>, [i \in 1..Len(repo_commit_list) |->
                                   <<repo_commit_list[i].date,
                                     Instant(repo_commit_list[i].date)>>])
        commit_messages ==
            [i \in 1..Len(repo_commit_list) |->
                <<StrftimeMinute(repo_commit_list[i].date), repo_commit_list[i].message>>]
    IN  [name          |-> repo_name,
         commits       |-> Len(repo_commit_list),
         added_lines   |-> acc.added_lines,
         deleted_lines |-> acc.deleted_lines,
         languages     |-> most_common(acc.lang_counter, 5),
         keywords      |-> [i \in 1..Len(top) |-> top[i][1]],
         main_work     |-> analyze_main_work(repo_commit_list),
         first_commit  |-> IF commit_dates = <<>> THEN None
                           ELSE Strftime(commit_dates[1][1]),
         last_commit   |-> IF commit_dates = <<>> THEN None
                           ELSE Strftime(commit_dates[Len(commit_dates)][1]),
         commit_messages |-> SortByString(<<>>, commit_messages)]

\* A variant of generate_repo_summaries that leaves the summaries in the order
\* of the labels.
generate_repo_summaries_unsorted(cs, exclude_languages) ==
    LET groups == GroupByRepo(<<>>, cs)
    IN  [i \in 1..Len(groups) |->
            RepoSummary(groups[i][1], groups[i][2], exclude_languages)]

generate_repo_summaries(cs, exclude_languages) ==
    LET groups    == GroupByRepo(<<>>, cs)
        summaries == [i \in 1..Len(groups) |->
                        RepoSummary(groups[i][1], groups[i][2], exclude_languages)]
        sorted    == SortDesc(<<>>, [i \in 1..Len(summaries) |->
                                        <<summaries[i], summaries[i].commits>>])
    IN  [i \in 1..Len(sorted) |-> sorted[i][1]]

YearStats(year) ==
    [year |-> year, total_commits |-> 0, total_added_lines |-> 0,
     total_deleted_lines |-> 0, active_days |-> 0, heatmap |-> <<>>,
     languages |-> <<>>, commits_by_hour |-> <<>>, commits_by_weekday |-> <<>>,
     weekend_days |-> 0, most_active_date |-> None, most_active_date_commits |-> 0,
     most_active_month |-> None, most_active_month_commits |-> 0,
     max_streak |-> 0, current_streak |-> 0, commit_words |-> <<>>,
     repos_count |-> 0, repos_stats |-> <<>>, repo_summaries |-> <<>>,
     achievements |-> <<>>]

\* A variant of CommitStep that counts a day in the heatmap once.
CommitStepWithHeatmapOfDays(loc, commit, exclude_languages) ==
    LET st       == loc.stats
        lines    == FilesLoop([added_lines |-> st.total_added_lines,
                               deleted_lines |-> st.total_deleted_lines,
                               languages |-> st.languages],
                              commit.files, exclude_languages)
        date_str == Strftime(commit.date)
        weekday  == Weekday(commit.date)
    IN  [stats |-> [st EXCEPT
                      !.total_commits = @ + 1,
                      !.total_added_lines = lines.added_lines,
                      !.total_deleted_lines = lines.deleted_lines,
                      !.languages = lines.languages,
                      !.heatmap = IF date_str \in loc.active_dates THEN @
                                  ELSE AddTo(@, DayOfYear(commit.date), 1),
                      !.commits_by_hour = AddTo(@, commit.date.hour, 1),
                      !.commits_by_weekday = AddTo(@, weekday, 1)],
         commits_by_date  |-> AddTo(loc.commits_by_date, date_str, 1),
         commits_by_month |-> AddTo(loc.commits_by_month, commit.date.m, 1),
         active_dates     |-> loc.active_dates \cup {date_str},
         weekend_dates    |-> IF weekday >= 5 THEN loc.weekend_dates \cup {date_str}
                              ELSE loc.weekend_dates,
         word_counter     |-> Update(loc.word_counter, extract_words(commit.message))]

\* One iteration of the for loop of analyze_commits (lines 111-149); loc holds
\* the function's locals beside stats.
CommitStep(loc, commit, exclude_languages) ==
    LET st       == loc.stats
        lines    == FilesLoop([added_lines |-> st.total_added_lines,
                               deleted_lines |-> st.total_deleted_lines,
                               languages |-> st.languages],
                              commit.files, exclude_languages)
        date_str == Strftime(commit.date)
        weekday  == Weekday(commit.date)
    IN  [stats |-> [st EXCEPT
                      !.total_commits = @ + 1,
                      !.total_added_lines = lines.added_lines,
                      !.total_deleted_lines = lines.deleted_lines,
                      !.languages = lines.languages,
                      !.heatmap = AddTo(@, DayOfYear(commit.date), 1),
                      !.commits_by_hour = AddTo(@, commit.date.hour, 1),
                      !.commits_by_weekday = AddTo(@, weekday, 1)],
         commits_by_date  |-> AddTo(loc.commits_by_date, date_str, 1),
         commits_by_month |-> AddTo(loc.commits_by_month, commit.date.m, 1),
         active_dates     |-> loc.active_dates \cup {date_str},
         weekend_dates    |-> IF weekday >= 5 THEN loc.weekend_dates \cup {date_str}
                              ELSE loc.weekend_dates,
         word_counter     |-> Update(loc.word_counter, extract_words(commit.message))]

RECURSIVE CommitLoop(_, _, _)
CommitLoop(loc, cs, exclude_languages) ==
    IF cs = <<>> THEN loc
    ELSE CommitLoop(CommitStep(loc, Head(cs), exclude_languages), Tail(cs),
                    exclude_languages)

\* analyze_commits from "stats = YearStats(year=year)" on, without the return
\* of lines 101-102 (lines 99-180).
Aggregate(cs, year, today) ==
    LET loc == CommitLoop([stats |-> YearStats(year), commits_by_date |-> <<>>,
                           commits_by_month |-> <<>>, active_dates |-> {},
                           weekend_dates |-> {}, word_counter |-> <<>>],
                          cs, DEFAULT_EXCLUDE_LANGUAGES)
        day       == IF loc.commits_by_date = <<>> THEN <<None, 0>>
                     ELSE MaxItem(loc.commits_by_date)
        month     == IF loc.commits_by_month = <<>> THEN <<None, 0>>
                     ELSE MaxItem(loc.commits_by_month)
        streak    == calculate_streak(loc.active_dates, today)
        summaries == generate_repo_summaries(cs, DEFAULT_EXCLUDE_LANGUAGES)
        st == [loc.stats EXCEPT
                 !.active_days = Cardinality(loc.active_dates),
                 !.weekend_days = Cardinality(loc.weekend_dates),
                 !.most_active_date = day[1],
                 !.most_active_date_commits = day[2],
                 !.most_active_month = month[1],
                 !.most_active_month_commits = month[2],
                 !.max_streak = streak[1],
                 !.current_streak = streak[2],
                 !.commit_words = most_common(loc.word_counter, 20),
                 !.repo_summaries = summaries,
                 !.repos_count = Len(summaries)]
    IN  [st EXCEPT !.achievements = calculate_achievements(st)]

\* A variant of analyze_commits without the return on an empty list.
analyze_commits_without_empty_return(cs, year, today) == Aggregate(cs, year, today)

\* analyze_commits(commits, year) with the default exclude_languages, today
\* being the date.today() that calculate_streak reads.
analyze_commits(cs, year, today) ==
    IF cs = <<>> THEN YearStats(year) ELSE Aggregate(cs, year, today)

----
(***************************************************************************)
(* main.py: main() from the call of analyze_repos on (lines 200-216).      *)
(***************************************************************************)
Todays == {Date(2024, 1, 6)}

Init ==
    /\ pc = "log"
    /\ repos \in {SubSeq(RepoPaths, 1, n) : n \in 1..MaxRepos}
    /\ emails \in {{}, {"dev@x.io"}}
    /\ repoIdx = 1
    /\ commits = <<>>
    /\ commitIdx = 1
    /\ all_commits = <<>>
    /\ seen_hashes = {}
    /\ stats = <<>>
    /\ displayed = FALSE
    /\ exported = FALSE
    /\ interruptedAt = ""
    /\ gitLog = <<>>
    /\ gitDiff = <<>>
    /\ fn = "main"
    /\ arg = <<>>
    /\ ret = <<>>

\* analyze_repos, line 144: commits = parse_git_log(repo, year, emails)
ParseLog ==
    /\ pc = "log"
    /\ \E result \in LogQuery :
          /\ commits' = parse_git_log(result, emails)
          /\ gitLog' = Append(gitLog, [repo |-> repoIdx, ok |-> result.ok,
                                       commits |-> commits'])
    /\ commitIdx' = 1
    /\ pc' = "commits"
    /\ UNCHANGED <<repos, emails, repoIdx, all_commits, seen_hashes, stats, displayed,
                   exported, interruptedAt, gitDiff, callVars>>

\* A variant of IsNewCommit that lets every commit of every repository in.
IsNewCommitInEveryRepo(commit, seen) == TRUE

\* analyze_repos, line 147: the test that lets a commit into all_commits.
IsNewCommit(commit, seen) == commit.hash \notin seen

\* analyze_repos, lines 146-152, for a commit whose hash was seen before.
SkipCommit ==
    /\ pc = "commits"
    /\ commitIdx <= Len(commits)
    /\ ~IsNewCommit(commits[commitIdx], seen_hashes)
    /\ commitIdx' = commitIdx + 1
    /\ UNCHANGED <<pc, repos, emails, repoIdx, commits, all_commits, seen_hashes, stats,
                   displayed, exported, interruptedAt, gitLog, gitDiff, callVars>>

\* analyze_repos, lines 146-152, for a commit whose hash is new: the diff
\* queries of parse_git_diff are run, the second one only if the first failed.
AddCommit ==
    /\ pc = "commits"
    /\ commitIdx <= Len(commits)
    /\ IsNewCommit(commits[commitIdx], seen_hashes)
    /\ LET commit == commits[commitIdx]
       IN  \E q1 \in FirstParentQuery(commit.hash) :
           \E q2 \in IF q1.ok THEN {GitFailure(<<>>)} ELSE EmptyTreeQuery(commit.hash) :
              LET files == parse_git_diff(q1, q2)
              IN  /\ seen_hashes' = seen_hashes \cup {commit.hash}
                  /\ all_commits' = Append(all_commits,
                                           [commit EXCEPT !.repo_name = PathName(repos[repoIdx]),
                                                          !.files = files])
                  /\ gitDiff' = Append(gitDiff, [repo |-> repoIdx, hash |-> commit.hash,
                                                 q1 |-> q1, ran2 |-> ~q1.ok, q2 |-> q2,
                                                 files |-> files])
    /\ commitIdx' = commitIdx + 1
    /\ UNCHANGED <<pc, repos, emails, repoIdx, commits, stats, displayed, exported,
                   interruptedAt, gitLog, callVars>>

\* analyze_repos, lines 140 and 154-158: the next repository, or the return.
NextRepo ==
    /\ pc = "commits"
    /\ commitIdx > Len(commits)
    /\ IF repoIdx < Len(repos)
       THEN repoIdx' = repoIdx + 1 /\ pc' = "log"
       ELSE repoIdx' = repoIdx /\ pc' = "analyze"
    /\ UNCHANGED <<repos, emails, commits, commitIdx, all_commits, seen_hashes, stats,
                   displayed, exported, interruptedAt, gitLog, gitDiff, callVars>>

\* main, line 204: stats = analyze_commits(commits, year)
Analyze ==
    /\ pc = "analyze"
    /\ \E today \in Todays : stats' = <<analyze_commits(all_commits, 2024, today)>>
    /\ pc' = "display"
    /\ UNCHANGED <<repos, emails, repoIdx, commits, commitIdx, all_commits, seen_hashes,
                   displayed, exported, interruptedAt, gitLog, gitDiff, callVars>>

\* main, line 207: display_stats(stats)
Display ==
    /\ pc = "display"
    /\ displayed' = TRUE
    /\ pc' = "export"
    /\ UNCHANGED <<repos, emails, repoIdx, commits, commitIdx, all_commits, seen_hashes,
                   stats, exported, interruptedAt, gitLog, gitDiff, callVars>>

\* main, lines 210-212: export_to_markdown(stats, output_dir)
Export ==
    /\ pc = "export"
    /\ exported' = TRUE
    /\ pc' = "done"
    /\ UNCHANGED <<repos, emails, repoIdx, commits, commitIdx, all_commits, seen_hashes,
                   stats, displayed, interruptedAt, gitLog, gitDiff, callVars>>

\* A variant of the handler that goes on to aggregate what extraction had
\* collected when it was interrupted.
HandlerAggregatesPartial(at) == IF at \in {"log", "commits"} THEN "analyze" ELSE "interrupted"

\* main, lines 214-216: where main() goes on after a KeyboardInterrupt raised
\* at position `at`: it prints and calls sys.exit(0).
KeyboardInterruptHandler(at) == "interrupted"

\* The user interrupts the run: KeyboardInterrupt is raised where main() is.
Interrupt ==
    /\ pc \in {"log", "commits", "analyze", "display", "export"}
    /\ interruptedAt' = pc
    /\ pc' = KeyboardInterruptHandler(pc)
    /\ UNCHANGED <<repos, emails, repoIdx, commits, commitIdx, all_commits, seen_hashes,
                   stats, displayed, exported, gitLog, gitDiff, callVars>>

Next ==
    \/ ParseLog
    \/ SkipCommit
    \/ AddCommit
    \/ NextRepo
    \/ Analyze
    \/ Display
    \/ Export
    \/ Interrupt

Spec == Init /\ [][Next]_vars

\* main() when the scanned directory is the root of the file system and is
\* itself a repository (scanner.py lines 32-41 yield Path("/")).
InitRoot ==
    /\ pc = "log"
    /\ repos \in {rs \in SeqsUpTo({RootPath, RepoPaths[1]}, MaxRepos) :
                   rs # <<>> /\ Cardinality(Range(rs)) = Len(rs)}
    /\ emails \in {{}, {"dev@x.io"}}
    /\ repoIdx = 1
    /\ commits = <<>>
    /\ commitIdx = 1
    /\ all_commits = <<>>
    /\ seen_hashes = {}
    /\ stats = <<>>
    /\ displayed = FALSE
    /\ exported = FALSE
    /\ interruptedAt = ""
    /\ gitLog = <<>>
    /\ gitDiff = <<>>
    /\ fn = "main"
    /\ arg = <<>>
    /\ ret = <<>>

SpecRoot == InitRoot /\ [][Next]_vars

----
(***************************************************************************)
(* Properties of main() and analyze_repos().                               *)
(***************************************************************************)
\* analyze_repos has returned.
Extracted == pc \in {"analyze", "display", "export", "done"}

HashesOf(cs) == {cs[i].hash : i \in 1..Len(cs)}

\* The repositories (their indices) whose log gave a commit of hash h.
ReposWith(h) == {i \in 1..Len(gitLog) : h \in HashesOf(gitLog[i].commits)}

\* The records of all_commits (their indices) of hash h.
RecordsOf(h) == {k \in 1..Len(all_commits) : all_commits[k].hash = h}

Least(S) == CHOOSE i \in S : \A j \in S : i <= j

SummaryOf(st, name) ==
    LET found == SelectSeq(st.repo_summaries, LAMBDA r : r.name = name)
    IN  IF found = <<>> THEN 0 ELSE found[1].commits

C5_FailedDiffGivesNoFiles ==
    \A n \in 1..Len(gitDiff) :
        (~IsRoot(gitDiff[n].hash) /\ ~gitDiff[n].q1.ok) => gitDiff[n].files = <<>>

\* The FileDiffs of the commit's numstat against the empty tree, whose fields
\* are numbers or "-": one per line, "-" read as 0.
TreeFiles(h) ==
    LET lines == EmptyTreeDiff(h)
    IN  [i \in 1..Len(lines) |->
            [filename |-> lines[i].filename,
             language |-> get_language(lines[i].filename),
             added_lines |-> IF lines[i].added = Dash THEN 0 ELSE lines[i].added.n,
             deleted_lines |-> IF lines[i].deleted = Dash THEN 0 ELSE lines[i].deleted.n]]

\* C6 (as stated): a root commit whose first query fails gets the file changes
\* of its diff against the empty tree, a non-empty list whenever it touches a
\* file.
C6_RootGetsEmptyTreeDiff ==
    \A n \in 1..Len(gitDiff) :
        (IsRoot(gitDiff[n].hash) /\ ~gitDiff[n].q1.ok) =>
            /\ gitDiff[n].ran2
            /\ gitDiff[n].files = TreeFiles(gitDiff[n].hash)
            /\ EmptyTreeDiff(gitDiff[n].hash) # <<>> => gitDiff[n].files # <<>>

\* C6 (amended): a root commit whose first query fails is queried again against
\* the empty tree; when that second query succeeds the commit gets exactly the
\* file changes of its output, a non-empty list whenever the commit touches a
\* file; when it fails too the commit gets an empty list.
C6_RootGetsEmptyTreeDiffIfQueried ==
    \A n \in 1..Len(gitDiff) :
        (IsRoot(gitDiff[n].hash) /\ ~gitDiff[n].q1.ok) =>
            /\ gitDiff[n].ran2
            /\ gitDiff[n].q2.ok =>
                  /\ gitDiff[n].files = TreeFiles(gitDiff[n].hash)
                  /\ EmptyTreeDiff(gitDiff[n].hash) # <<>> => gitDiff[n].files # <<>>
            /\ ~gitDiff[n].q2.ok => gitDiff[n].files = <<>>

C6_RootDiffed ==
    \E n \in 1..Len(gitDiff) :
        /\ IsRoot(gitDiff[n].hash) /\ ~gitDiff[n].q1.ok /\ gitDiff[n].q2.ok
        /\ Len(gitDiff[n].files) = 2

\* C7: a failed log query gives the repository an empty commit list; every
\* repository is still visited, every commit the other repositories' logs gave
\* is in the aggregation input, and only the user's interrupt ends the run
\* early.
C7_FailedLogSkipsOneRepository ==
    /\ \A i \in 1..Len(gitLog) : ~gitLog[i].ok => gitLog[i].commits = <<>>
    /\ Extracted =>
          /\ Len(gitLog) = Len(repos)
          /\ \A i \in 1..Len(gitLog) : HashesOf(gitLog[i].commits) \subseteq HashesOf(all_commits)
    /\ pc = "interrupted" => interruptedAt # ""

C7_RunCompletedAfterFailedLog ==
    /\ pc = "done"
    /\ \E i, j \in 1..Len(gitLog) :
          i < j /\ ~gitLog[i].ok /\ gitLog[j].ok /\ gitLog[j].commits # <<>>
    /\ Len(all_commits) > 0

\* C8: once the run is interrupted during extraction, analyze_commits,
\* display_stats and export_to_markdown are never called.
C8_InterruptDiscardsPartialCommits ==
    interruptedAt \in {"log", "commits"} =>
        stats = <<>> /\ ~displayed /\ ~exported /\ pc = "interrupted"

C8_InterruptedWithCommits ==
    interruptedAt = "commits" /\ all_commits # <<>> /\ repoIdx < Len(repos)

----
(***************************************************************************)
(* Calls of the functions on drawn arguments: fn names the function, arg   *)
(* is its argument, ret is <<>> before the call and <<result>> after it.   *)
(***************************************************************************)
NotInMain ==
    /\ pc = "call"
    /\ repos = <<>>
    /\ emails = {}
    /\ repoIdx = 0
    /\ commits = <<>>
    /\ commitIdx = 0
    /\ all_commits = <<>>
    /\ seen_hashes = {}
    /\ stats = <<>>
    /\ displayed = FALSE
    /\ exported = FALSE
    /\ interruptedAt = ""
    /\ gitLog = <<>>
    /\ gitDiff = <<>>

\* analyze_commits: the commits of the argument.
AnalyzeFiles ==
    {<<>>,
     <<FileDiff("app.py", 10, 2)>>,
     <<FileDiff("README.md", 40, 0), FileDiff("logo.png", 0, 0), FileDiff("Makefile", 4, 1)>>,
     <<FileDiff("web.js", 7, 3), FileDiff("conf.json", 5, 1), FileDiff("Main.PY", 1, 0)>>}

Jan08 == [y |-> 2024, m |-> 1, d |-> 8, hour |-> 9, tz |-> 8]

MessageOn(date) ==
    IF date = Jan05 THEN "add api" ELSE IF date = Jan06 THEN "bump deps" ELSE "api: v2 of api"

AnalyzeCommits ==
    {[hash |-> "a1", email |-> "dev@x.io", date |-> date, message |-> MessageOn(date),
      repo_name |-> name, files |-> files] :
        date \in {Jan05, Jan06, Jan08}, name \in {"app", "lib"}, files \in AnalyzeFiles}

AnalyzeTodays == {Date(2024, 1, 6), Date(2026, 11, 5)}

InitAnalyze ==
    /\ NotInMain
    /\ fn = "analyze_commits"
    /\ arg \in SeqsUpTo(AnalyzeCommits, MaxCommits)
    /\ ret = <<>>

CallAnalyze ==
    /\ fn = "analyze_commits"
    /\ ret = <<>>
    /\ \E today \in AnalyzeTodays : ret' = <<analyze_commits(arg, 2024, today)>>
    /\ UNCHANGED <<mainVars, fn, arg>>

SpecAnalyze == InitAnalyze /\ [][CallAnalyze]_vars

\* analyze_commits on commits that differ in their message only: more than 20
\* distinct keywords, words of equal frequency, a stop word and an upper case
\* word.
KeywordMessages ==
    {"alpha beta", "beta alpha", "Fix: Alpha", "gamma delta",
     "k01 k02 k03 k04 k05 k06 k07 k08 k09 k10 k11 k12 k13 k14 k15 k16 k17 k18 k19"}

KeywordCommits ==
    {[hash |-> "a1", email |-> "dev@x.io", date |-> Jan05, message |-> m,
      repo_name |-> "app", files |-> <<>>] : m \in KeywordMessages}

InitKeywords ==
    /\ NotInMain
    /\ fn = "analyze_commits"
    /\ arg \in SeqsUpTo(KeywordCommits, MaxMessages)
    /\ ret = <<>>

SpecKeywords == InitKeywords /\ [][CallAnalyze]_vars

\* analyze_commits on commits that differ in the hour of their timestamp only.
HourCommits ==
    {[hash |-> "a1", email |-> "dev@x.io",
      date |-> [y |-> 2024, m |-> 1, d |-> 5, hour |-> h, tz |-> 8],
      message |-> "bump deps", repo_name |-> "app", files |-> <<>>] : h \in 0..23}

InitHours ==
    /\ NotInMain
    /\ fn = "analyze_commits"
    /\ arg \in SeqsUpTo(HourCommits, MaxHourCommits)
    /\ Cardinality(Range(arg)) <= MaxDistinctHours
    /\ ret = <<>>

SpecHours == InitHours /\ [][CallAnalyze]_vars

\* calculate_streak: the active dates are "%Y-%m-%d" strings of a window of
\* days around the new year and of the days around 29 February 2024.
StreakWindow ==
    {PlusDays(Date(2023, 12, 30), k) : k \in 0..(WindowLen - 1)}
    \cup {Date(2024, 2, 28), Date(2024, 2, 29), Date(2024, 3, 1)}

StreakTodays ==
    StreakWindow \cup {PlusDays(Date(2023, 12, 30), WindowLen), Date(2026, 11, 5)}

InitStreak ==
    /\ NotInMain
    /\ fn = "calculate_streak"
    /\ arg \in {S \in SUBSET {Strftime(d) : d \in StreakWindow} : Cardinality(S) <= MaxDates}
    /\ ret = <<>>

CallStreak ==
    /\ fn = "calculate_streak"
    /\ ret = <<>>
    /\ \E today \in StreakTodays :
          ret' = <<[today |-> today, streak |-> calculate_streak(arg, today)]>>
    /\ UNCHANGED <<mainVars, fn, arg>>

SpecStreak == InitStreak /\ [][CallStreak]_vars

\* calculate_achievements: the fields of YearStats it reads, drawn so that
\* they fit together (a day has at most total_commits commits, a streak is made
\* of active days, ...).
Languages(n) == [i \in 1..n |-> <<i, 1>>]

AchievementStats ==
    {st \in [total_commits : {0, 50, 400},
             total_added_lines : {0, 100, 9501, 100000, 150000, 2000000},
             total_deleted_lines : {0, 90, 20000},
             languages : {Languages(0), Languages(6), Languages(10)},
             commits_by_hour : {<<>>, <<<<3, 1>>>>, <<<<9, 2>>, <<20, 2>>>>, <<<<20, 1>>>>},
             weekend_days : {0, 21, 41},
             most_active_date_commits : {0, 1, 51, 101},
             max_streak : {0, 1, 7, 14, 30},
             active_days : {0, 1, 50, 200, 300}] :
        /\ (st.total_commits = 0) = (st.commits_by_hour = <<>>)
        /\ (st.total_commits = 0) = (st.active_days = 0)
        /\ (st.total_commits = 0) = (st.max_streak = 0)
        /\ (st.total_commits = 0) = (st.most_active_date_commits = 0)
        /\ st.total_commits = 0 =>
              st.total_added_lines = 0 /\ st.total_deleted_lines = 0
        /\ st.active_days <= st.total_commits
        /\ st.most_active_date_commits <= st.total_commits
        /\ st.max_streak <= st.active_days
        /\ st.weekend_days <= st.active_days
        /\ st.languages # <<>> => st.total_added_lines >= Len(st.languages)}

InitAchievements ==
    /\ NotInMain
    /\ fn = "calculate_achievements"
    /\ arg \in AchievementStats
    /\ ret = <<>>

CallAchievements ==
    /\ fn = "calculate_achievements"
    /\ ret = <<>>
    /\ ret' = <<calculate_achievements(arg)>>
    /\ UNCHANGED <<mainVars, fn, arg>>

SpecAchievements == InitAchievements /\ [][CallAchievements]_vars

\* parse_git_log: the records of the log output are blank, short of a field, or
\* of four fields with any hash, author and date text; the output is printed
\* once or twice in a row.
LogRecords ==
    {[nparts |-> 0, hash |-> "", email |-> "", date_str |-> [valid |-> FALSE, dt |-> Jan05],
      message |-> ""],
     [nparts |-> 3, hash |-> "a1", email |-> "dev@x.io",
      date_str |-> [valid |-> TRUE, dt |-> Jan05], message |-> ""]}
    \cup {[nparts |-> 4, hash |-> h, email |-> e, date_str |-> [valid |-> v, dt |-> Jan05],
           message |-> "add apiN"] :
            h \in {"a1", "A1", "b2"}, e \in {"dev@x.io", "Dev@X.io", "bot@x.io"},
            v \in BOOLEAN}

\* parse_git_log on records that differ in their hash and message: messages
\* with and without the "\n" that ends %B, with leading, inner and trailing
\* spaces and with two "\n".
MessageRecords ==
    {[nparts |-> 4, hash |-> h, email |-> "dev@x.io",
      date_str |-> [valid |-> TRUE, dt |-> Jan05], message |-> m] :
        h \in {"a1", "b2"}, m \in {"add apiN", " add api NN", "add  apiNN", "add api"}}

InitLogMessages ==
    /\ NotInMain
    /\ fn = "parse_git_log"
    /\ arg \in [output : SeqsUpTo(MessageRecords, MaxRecords), emails : {{}}]
    /\ ret = <<>>

InitLog ==
    /\ NotInMain
    /\ fn = "parse_git_log"
    /\ arg \in [output : SeqsUpTo(LogRecords, MaxRecords), emails : {{}, {"dev@x.io"}}]
    /\ ret = <<>>

CallLog ==
    /\ fn = "parse_git_log"
    /\ ret = <<>>
    /\ \E twice \in BOOLEAN :
          ret' = <<[twice |-> twice,
                    commits |-> parse_git_log(
                                    GitSuccess(IF twice THEN arg.output \o arg.output
                                               ELSE arg.output), arg.emails)]>>
    /\ UNCHANGED <<mainVars, fn, arg>>

SpecLog == InitLog /\ [][CallLog]_vars

SpecLogMessages == InitLogMessages /\ [][CallLog]_vars

\* generate_repo_summaries: commits of two repositories and one without a
\* label, written in three zones (09:00 at +08:00 is 01:00 UTC, 23:00 of the
\* day before at -05:00 is 04:00 UTC, 08:00 at +00:00 is 08:00 UTC), with
\* messages of one and of two patterns of a work category.
SummaryDates ==
    {Jan05,
     [y |-> 2024, m |-> 1, d |-> 4, hour |-> 23, tz |-> -5],
     [y |-> 2024, m |-> 1, d |-> 5, hour |-> 8, tz |-> 0]}

SummaryCommits ==
    {[hash |-> "a1", email |-> "dev@x.io", date |-> date, message |-> message,
      repo_name |-> name, files |-> <<>>] :
        date \in SummaryDates, message \in {"Feature", "docs", "bugfix"},
        name \in {"app", "lib"}}
    \cup {[hash |-> "a1", email |-> "dev@x.io", date |-> Jan05, message |-> "build",
           repo_name |-> "", files |-> <<>>]}

InitSummaries ==
    /\ NotInMain
    /\ fn = "generate_repo_summaries"
    /\ arg \in SeqsUpTo(SummaryCommits, MaxRepoCommits)
    /\ ret = <<>>

CallSummaries ==
    /\ fn = "generate_repo_summaries"
    /\ ret = <<>>
    /\ ret' = <<generate_repo_summaries(arg, DEFAULT_EXCLUDE_LANGUAGES)>>
    /\ UNCHANGED <<mainVars, fn, arg>>

SpecSummaries == InitSummaries /\ [][CallSummaries]_vars

\* parse_git_diff: the lines of a numstat output are empty, short of a field,
\* of three fields or more with numbers, the "-" of binary files or other text
\* as counts; the output is that of the first query or of the empty-tree query.
DiffLines ==
    {[nparts |-> 0, added |-> Junk, deleted |-> Junk, filename |-> ""],
     [nparts |-> 2, added |-> Num(4), deleted |-> Num(1), filename |-> ""],
     NumstatLine(Num(3), Num(1), "app.py"),
     NumstatLine(Dash, Dash, "logo.png"),
     NumstatLine(Dash, Num(2), "web.js"),
     NumstatLine(Junk, Num(2), "app.py"),
     NumstatLine(Num(6), Junk, "README.md"),
     [nparts |-> 4, added |-> Num(0), deleted |-> Num(7), filename |-> "conf.json"]}

InitDiff ==
    /\ NotInMain
    /\ fn = "parse_git_diff"
    /\ arg \in SeqsUpTo(DiffLines, MaxLines)
    /\ ret = <<>>

CallDiff ==
    /\ fn = "parse_git_diff"
    /\ ret = <<>>
    /\ \E q1 \in {GitSuccess(arg), GitFailure(<<ExceptionText>>)} :
          ret' = <<parse_git_diff(q1, GitSuccess(arg))>>
    /\ UNCHANGED <<mainVars, fn, arg>>

SpecDiff == InitDiff /\ [][CallDiff]_vars

----
(***************************************************************************)
(* Properties of the functions.                                            *)
(***************************************************************************)
Called(f) == fn = f /\ ret # <<>>

AddedLinesOf(cs) ==
    SumSeq([i \in 1..Len(cs) |->
              SumSeq([j \in 1..Len(cs[i].files) |-> cs[i].files[j].added_lines])])

DeletedLinesOf(cs) ==
    SumSeq([i \in 1..Len(cs) |->
              SumSeq([j \in 1..Len(cs[i].files) |-> cs[i].files[j].deleted_lines])])

\* C1: the snapshot's total_added_lines and total_deleted_lines are the sums
\* of added_lines and of deleted_lines over every file of every commit given to
\* analyze_commits, whatever the language of the file.
C1_LineTotalsAreSums ==
    Called("analyze_commits") =>
        /\ ret[1].total_added_lines = AddedLinesOf(arg)
        /\ ret[1].total_deleted_lines = DeletedLinesOf(arg)

C1_UncountedLanguagesSummed ==
    /\ Called("analyze_commits")
    /\ Len(arg) = 2
    /\ \E i \in 1..Len(arg) : \E j, k \in 1..Len(arg[i].files) :
          /\ arg[i].files[j].language = None /\ arg[i].files[j].added_lines > 0
          /\ arg[i].files[k].language \in DEFAULT_EXCLUDE_LANGUAGES
    /\ ret[1].languages # <<>>
    /\ ret[1].total_added_lines > SumSeq([i \in 1..Len(ret[1].languages) |->
                                            ret[1].languages[i][2]])

WellFormed(record) == record.nparts = 4 /\ IsoParses(record.date_str)

PassesFilter(record, filter) == filter = {} \/ Lower(record.email) \in filter

\* The records of a log that are well-formed, pass the filter and are the
\* first such record of their (lowercased) hash, in the order of the log.
FirstOccurrences(records, filter) ==
    LET kept(i) ==
            /\ WellFormed(records[i]) /\ PassesFilter(records[i], filter)
            /\ \A j \in 1..(i - 1) :
                  (WellFormed(records[j]) /\ PassesFilter(records[j], filter))
                     => Lower(records[j].hash) # Lower(records[i].hash)
        idx == SelectSeq([i \in 1..Len(records) |-> i], kept)
    IN  [n \in 1..Len(idx) |->
            CommitInfo(Lower(records[idx[n]].hash), Lower(records[idx[n]].email),
                       fromisoformat(records[idx[n]].date_str),
                       Strip(records[idx[n]].message))]

VolumeNames ==
    {"JuanWangBenWang", "FaFenTuQiang", "QinLaoNuLi", "XiaoShiNiuDao", "XiuYangShengXi"}

\* The volume badges among the achievements, by name.
VolumeBadgesOf(achievements) ==
    LET found == SelectSeq(achievements, LAMBDA b : b[1] \in VolumeNames)
    IN  [i \in 1..Len(found) |-> found[i][1]]

\* C4 (as stated): 50 commits and 100000 added lines (score 100500) earn
\* exactly the volume badge FaFenTuQiang.
C4_Score100500EarnsFaFenTuQiang ==
    (Called("calculate_achievements") /\ arg.total_commits = 50
        /\ arg.total_added_lines = 100000)
    => VolumeBadgesOf(ret[1]) = <<"FaFenTuQiang">>

\* C4 (amended): 50 commits and 100000 added lines (score 100500, above
\* 100000) earn exactly the top volume badge JuanWangBenWang; FaFenTuQiang is
\* the one volume badge of the scores above 10000 and up to 100000.
C4_Score100500EarnsJuanWangBenWang ==
    Called("calculate_achievements") =>
        LET score == arg.total_commits * 10 + arg.total_added_lines
        IN  /\ (arg.total_commits = 50 /\ arg.total_added_lines = 100000)
                  => VolumeBadgesOf(ret[1]) = <<"JuanWangBenWang">>
            /\ (VolumeBadgesOf(ret[1]) = <<"FaFenTuQiang">>)
                  = (score > 10000 /\ score <= 100000)

C4_Score100500 ==
    /\ Called("calculate_achievements")
    /\ arg.total_commits = 50 /\ arg.total_added_lines = 100000
    /\ Len(VolumeBadgesOf(ret[1])) = 1

\* The number of dates of S from date on, day after day.
RECURSIVE RunFrom(_, _)
RunFrom(S, date) ==
    IF Strftime(date) \in S THEN 1 + RunFrom(S, PlusOneDay(date)) ELSE 0

LongestRun(S) ==
    LET runs == {RunFrom(S, Strptime(s)) : s \in S}
    IN  CHOOSE n \in runs : \A m \in runs : m <= n

StreakExample ==
    {Strftime(Date(2024, 1, 1)), Strftime(Date(2024, 1, 2)), Strftime(Date(2024, 1, 3)),
     Strftime(Date(2024, 1, 10))}

\* C9: for a non-empty set of active dates, max_streak is the length of the
\* longest run of calendar-consecutive dates of the set: 3 for 2024-01-01,
\* 2024-01-02, 2024-01-03, 2024-01-10, and 1 for a single date.
C9_MaxStreakIsLongestRun ==
    (Called("calculate_streak") /\ arg # {}) =>
        /\ ret[1].streak[1] = LongestRun(arg)
        /\ arg = StreakExample => ret[1].streak[1] = 3
        /\ Cardinality(arg) = 1 => ret[1].streak[1] = 1

C9_ExampleStreak ==
    Called("calculate_streak") /\ arg = StreakExample /\ ret[1].streak[1] = 3

\* The number of days, counted back from the day of ordinal t, that are all in
\* the set of ordinals.
DaysBack(ordinals, t) ==
    CHOOSE k \in 0..Cardinality(ordinals) :
        /\ \A j \in 0..(k - 1) : (t - j) \in ordinals
        /\ (t - k) \notin ordinals

\* C10: current_streak is the number of consecutive days, counted back from
\* today, that are all active; it is 0 when today is not active, whatever the
\* latest active date is.
C10_CurrentStreakCountsBackFromToday ==
    Called("calculate_streak") =>
        LET ordinals == {ToOrdinal(Strptime(s)) : s \in arg}
            today    == ret[1].today
        IN  /\ ret[1].streak[2] = DaysBack(ordinals, ToOrdinal(today))
            /\ Strftime(today) \notin arg => ret[1].streak[2] = 0

C10_StreakEndsBeforeLatestDate ==
    /\ Called("calculate_streak")
    /\ ret[1].streak[2] = 2
    /\ \E s \in arg : ToOrdinal(Strptime(s)) > ToOrdinal(ret[1].today) + 1

\* The keywords of the messages of the commits, in the order they are met.
WordsOf(cs) == Concat([i \in 1..Len(cs) |-> extract_words(cs[i].message)])

Frequency(words, w) == Cardinality({i \in 1..Len(words) : words[i] = w})

FirstSeen(words, w) == CHOOSE i \in 1..Len(words) :
                          words[i] = w /\ \A j \in 1..(i - 1) : words[j] # w

\* Keyword v ranks before keyword w: it is more frequent, or as frequent and
\* met first.
RanksBefore(words, v, w) ==
    \/ Frequency(words, v) > Frequency(words, w)
    \/ /\ Frequency(words, v) = Frequency(words, w)
       /\ FirstSeen(words, v) < FirstSeen(words, w)

\* C11: commit_words holds at most 20 keywords with their frequencies over all
\* the messages, by descending frequency and, among equal frequencies, in the
\* order the keywords are first met; the keywords left out at the cut rank
\* behind every keyword kept; "alpha beta", "beta alpha" rank alpha before beta.
C11_Top20KeywordsByFrequencyThenFirstSeen ==
    Called("analyze_commits") =>
        LET words == WordsOf(arg)
            top   == ret[1].commit_words
            kept  == {top[i][1] : i \in 1..Len(top)}
        IN  /\ Len(top) = (IF Cardinality(Range(words)) < 20
                           THEN Cardinality(Range(words)) ELSE 20)
            /\ \A i \in 1..Len(top) :
                  top[i][1] \in Range(words) /\ top[i][2] = Frequency(words, top[i][1])
            /\ \A i, j \in 1..Len(top) : i < j => RanksBefore(words, top[i][1], top[j][1])
            /\ \A w \in Range(words) \ kept : \A v \in kept : RanksBefore(words, v, w)
            /\ ([i \in 1..Len(arg) |-> arg[i].message] = <<"alpha beta", "beta alpha">>)
                  => top = <<<<"alpha", 2>>, <<"beta", 2>>>>

C11_TiedKeywordsCutAtTwenty ==
    /\ Called("analyze_commits")
    /\ Cardinality(Range(WordsOf(arg))) > 20
    /\ Len(ret[1].commit_words) = 20
    /\ \E i \in 1..19 :
          /\ ret[1].commit_words[i][2] = ret[1].commit_words[i + 1][2]
          /\ ret[1].commit_words[i][2] >= 2
    /\ ret[1].commit_words[20][2] = 1
    /\ \E w \in Range(WordsOf(arg)) :
          /\ Frequency(WordsOf(arg), w) = 1
          /\ \A i \in 1..20 : ret[1].commit_words[i][1] # w

FilesOf(cs) == Concat([i \in 1..Len(cs) |-> cs[i].files])

Excluded(language) ==
    language \in {"Markdown", "JSON", "YAML", "XML", "reStructuredText"}

\* C12: a file of an excluded language or of no language adds its added_lines
\* to total_added_lines and leaves the languages mapping alone; the mapping
\* has one entry per other language met, holding the added_lines of the files
\* of that language.
C12_ExcludedLanguagesLeaveMappingAlone ==
    Called("analyze_commits") =>
        LET files     == FilesOf(arg)
            languages == ret[1].languages
            counted   == {i \in 1..Len(files) :
                            files[i].language # None /\ ~Excluded(files[i].language)}
        IN  /\ Keys(languages) = {files[i].language : i \in counted}
            /\ Len(languages) = Cardinality(Keys(languages))
            /\ \A k \in 1..Len(languages) :
                  languages[k][2] =
                     SumSeq([i \in 1..Len(files) |->
                               IF files[i].language = languages[k][1]
                               THEN files[i].added_lines ELSE 0])
            /\ ret[1].total_added_lines =
                  SumSeq([i \in 1..Len(files) |-> files[i].added_lines])

C12_MarkdownAndJsonBesideCountedLanguages ==
    /\ Called("analyze_commits")
    /\ \E i, j \in 1..Len(FilesOf(arg)) :
          /\ FilesOf(arg)[i].language = "Markdown" /\ FilesOf(arg)[i].added_lines = 40
          /\ FilesOf(arg)[j].language = "JSON" /\ FilesOf(arg)[j].added_lines > 0
    /\ Keys(ret[1].languages) = {"JavaScript", "Python"}
    /\ ret[1].total_added_lines >= 45 + Get(ret[1].languages, "Python", 0)
                                      + Get(ret[1].languages, "JavaScript", 0)

WellFormedLine(line) ==
    line.nparts >= 3 /\ line.added.kind # "junk" /\ line.deleted.kind # "junk"

CountOf(field) == IF field.kind = "dash" THEN 0 ELSE field.n

\* C13: parse_git_diff gives one FileChange per well-formed line, in the order
\* of the output: a "-" count is recorded as 0, and a line short of a field or
\* with a count that is neither a number nor "-" gives nothing and does not
\* stop the lines after it.
C13_OneFileChangePerWellFormedLine ==
    Called("parse_git_diff") =>
        LET lines == SelectSeq(arg, WellFormedLine)
        IN  ret[1] = [i \in 1..Len(lines) |->
                        [filename      |-> lines[i].filename,
                         language      |-> get_language(lines[i].filename),
                         added_lines   |-> CountOf(lines[i].added),
                         deleted_lines |-> CountOf(lines[i].deleted)]]

C13_BinaryLineAfterMalformedLines ==
    /\ Called("parse_git_diff")
    /\ Len(arg) = 3
    /\ arg[1].nparts = 3 /\ arg[1].added.kind = "junk"
    /\ arg[2].nparts = 2
    /\ arg[3].added.kind = "dash" /\ arg[3].deleted.kind = "num"
    /\ ret[1] = <<[filename |-> "web.js", language |-> "JavaScript",
                   added_lines |-> 0, deleted_lines |-> 2]>>

\* The names of the badges of the nine categories, in the order volume,
\* language count, favorite hour, weekend, single-day peak, streak, active
\* days, net lines, deletion ratio.
CategoryNames ==
    <<VolumeNames,
      {"QuanZhanDaShen", "BianChengYuYanDaShi"},
      {"YeMaoZi", "ZaoShuiZaoQiShenTiHao", "GanFanRenGanFanHun", "XiaWuChaShiJian",
       "WanCanQianChongCi", "YeJianMoShi"},
      {"ZhouMoYongDongJi", "ZhouMoZhanShi"},
      {"DaiMaKuangRen", "BugfixZhiZaoJi"},
      {"JianChiJiuShiShengLi", "LiangZhouLianJi", "YiZhouDaRen"},
      {"QuanNianWuXiu", "LaoMoBenMo"},
      {"BaiWanDaiMa", "ShiWanHangJia", "DaiMaQingDaoFu"},
      {"ChongGouDaRen"}>>

CategoryOf(name) == CHOOSE c \in 1..Len(CategoryNames) : name \in CategoryNames[c]

\* The tiers of the tiered categories, highest first: <<category, name,
\* whether the snapshot meets the threshold of the tier>>.
Tiers(st) ==
    LET score == st.total_commits * 10 + st.total_added_lines
        net   == st.total_added_lines - st.total_deleted_lines
    IN  <<<<1, "JuanWangBenWang", score > 100000>>,
          <<1, "FaFenTuQiang", score > 10000>>,
          <<1, "QinLaoNuLi", score > 1000>>,
          <<1, "XiaoShiNiuDao", score > 500>>,
          <<1, "XiuYangShengXi", TRUE>>,
          <<2, "QuanZhanDaShen", Len(st.languages) >= 10>>,
          <<2, "BianChengYuYanDaShi", Len(st.languages) >= 6>>,
          <<4, "ZhouMoYongDongJi", st.weekend_days > 40>>,
          <<4, "ZhouMoZhanShi", st.weekend_days > 20>>,
          <<5, "DaiMaKuangRen", st.most_active_date_commits > 100>>,
          <<5, "BugfixZhiZaoJi", st.most_active_date_commits > 50>>,
          <<6, "JianChiJiuShiShengLi", st.max_streak >= 30>>,
          <<6, "LiangZhouLianJi", st.max_streak >= 14>>,
          <<6, "YiZhouDaRen", st.max_streak >= 7>>,
          <<7, "QuanNianWuXiu", st.active_days >= 300>>,
          <<7, "LaoMoBenMo", st.active_days >= 200>>,
          <<8, "BaiWanDaiMa", net > 1000000>>,
          <<8, "ShiWanHangJia", net > 100000>>,
          <<8, "DaiMaQingDaoFu", net < -10000>>>>

\* The names of the badges of category c among the achievements.
BadgesOfCategory(achievements, c) ==
    LET found == SelectSeq(achievements, LAMBDA b : b[1] \in CategoryNames[c])
    IN  [i \in 1..Len(found) |-> found[i][1]]

\* C14: the achievements hold at most one badge of each tiered category, the
\* badge of the highest tier whose threshold is met, and the badges follow the
\* order of the categories.
C14_OneBadgePerCategoryInCategoryOrder ==
    Called("calculate_achievements") =>
        LET tiers == Tiers(arg)
            met(c) == {i \in 1..Len(tiers) : tiers[i][1] = c /\ tiers[i][3]}
        IN  /\ \A i \in 1..Len(ret[1]) : \E c \in 1..Len(CategoryNames) :
                  ret[1][i][1] \in CategoryNames[c]
            /\ \A i, j \in 1..Len(ret[1]) :
                  i < j => CategoryOf(ret[1][i][1]) < CategoryOf(ret[1][j][1])
            /\ \A c \in {1, 2, 4, 5, 6, 7, 8} :
                  BadgesOfCategory(ret[1], c) =
                     (IF met(c) = {} THEN <<>>
                      ELSE <<tiers[CHOOSE i \in met(c) : \A j \in met(c) : i <= j][2]>>)

C14_BadgeOfEveryCategory ==
    /\ Called("calculate_achievements")
    /\ Len(ret[1]) = 9
    /\ arg.max_streak >= 30
    /\ arg.weekend_days > 40
    /\ arg.most_active_date_commits > 100

\* C15: analyze_commits on an empty list returns the snapshot of the year
\* whose counts are all 0, whose mappings and lists are all empty and whose
\* most active date and month are absent.
C15_EmptyInputGivesZeroSnapshot ==
    (Called("analyze_commits") /\ arg = <<>>) =>
        /\ ret[1].year = 2024
        /\ \A count \in {ret[1].total_commits, ret[1].total_added_lines,
                         ret[1].total_deleted_lines, ret[1].active_days,
                         ret[1].weekend_days, ret[1].max_streak, ret[1].current_streak,
                         ret[1].repos_count, ret[1].most_active_date_commits,
                         ret[1].most_active_month_commits} : count = 0
        /\ \A mapping \in {ret[1].heatmap, ret[1].languages, ret[1].commits_by_hour,
                           ret[1].commits_by_weekday, ret[1].commit_words,
                           ret[1].repos_stats, ret[1].repo_summaries,
                           ret[1].achievements} : mapping = <<>>
        /\ ret[1].most_active_date = None
        /\ ret[1].most_active_month = None

C15_AnalyzedNoCommit ==
    Called("analyze_commits") /\ arg = <<>> /\ ret[1].achievements = <<>>

LabelsOf(cs) == {cs[i].repo_name : i \in 1..Len(cs)} \ {""}

CommitsOf(cs, label) == SelectSeq(cs, LAMBDA c : c.repo_name = label)

FirstCommitOf(cs, label) ==
    CHOOSE i \in 1..Len(cs) :
        cs[i].repo_name = label /\ \A j \in 1..(i - 1) : cs[j].repo_name # label

\* C16: repo_summaries holds one summary per repository label of the commits,
\* by descending commit count, the summaries of equal count in the order their
\* labels first occur in the commits.
C16_SummariesByCommitCountThenFirstLabel ==
    Called("generate_repo_summaries") =>
        LET summaries == ret[1]
        IN  /\ {summaries[i].name : i \in 1..Len(summaries)} = LabelsOf(arg)
            /\ Len(summaries) = Cardinality(LabelsOf(arg))
            /\ \A i \in 1..Len(summaries) :
                  summaries[i].commits = Len(CommitsOf(arg, summaries[i].name))
            /\ \A i, j \in 1..Len(summaries) :
                  i < j =>
                     \/ summaries[i].commits > summaries[j].commits
                     \/ /\ summaries[i].commits = summaries[j].commits
                        /\ FirstCommitOf(arg, summaries[i].name)
                              < FirstCommitOf(arg, summaries[j].name)

C16_EqualCountsKeepLabelOrder ==
    /\ Called("generate_repo_summaries")
    /\ Len(arg) = 3
    /\ arg[1].repo_name = "lib" /\ arg[2].repo_name = "" /\ arg[3].repo_name = "app"
    /\ [i \in 1..Len(ret[1]) |-> ret[1][i].name] = <<"lib", "app">>
    /\ ret[1][1].commits = ret[1][2].commits

\* The record of the log that a returned commit was made from: the first one
\* of its hash.
RecordOf(records, commit) ==
    records[CHOOSE i \in 1..Len(records) :
               /\ Lower(records[i].hash) = commit.hash
               /\ \A j \in 1..(i - 1) : Lower(records[j].hash) # commit.hash]

\* The characters of a message; a message that is not listed in MessageChars
\* is never compared.
CharsOf(message) == MessageChars[message]

WithoutOneNewline(chars) ==
    IF chars # <<>> /\ chars[Len(chars)] = "\n"
    THEN SubSeq(chars, 1, Len(chars) - 1)
    ELSE chars

\* C17 (as stated): the message of a commit is the message field of its record
\* without exactly one trailing "\n"; leading whitespace, inner whitespace and
\* further trailing "\n" or spaces are kept.
C17_MessageLosesOneTrailingNewline ==
    Called("parse_git_log") =>
        \A i \in 1..Len(ret[1].commits) :
            CharsOf(ret[1].commits[i].message)
               = WithoutOneNewline(CharsOf(RecordOf(arg.output, ret[1].commits[i]).message))

\* The orders in which n commits can be listed.
Orders(n) == {p \in [1..n -> 1..n] : \A i, j \in 1..n : p[i] = p[j] => i = j}

\* C18 (as stated): in every repository summary commit_messages lists the
\* (date, message) pairs of the repository's commits by non-decreasing instant,
\* whatever the zone offsets of the commits, and first_commit and last_commit
\* are the dates of the commits of the earliest and of the latest instant.
C18_MessagesByInstantFirstAndLastByTimestamp ==
    Called("generate_repo_summaries") =>
        \A k \in 1..Len(ret[1]) :
            LET summary == ret[1][k]
                cs      == CommitsOf(arg, summary.name)
                n       == Len(cs)
            IN  /\ \E p \in Orders(n) :
                      /\ \A i \in 1..n :
                            summary.commit_messages[i]
                               = <<StrftimeMinute(cs[p[i]].date), cs[p[i]].message>>
                      /\ \A i \in 1..(n - 1) :
                            Instant(cs[p[i]].date) <= Instant(cs[p[i + 1]].date)
                /\ Len(summary.commit_messages) = n
                /\ \E i \in 1..n :
                      /\ summary.first_commit = Strftime(cs[i].date)
                      /\ \A j \in 1..n : Instant(cs[i].date) <= Instant(cs[j].date)
                /\ \E i \in 1..n :
                      /\ summary.last_commit = Strftime(cs[i].date)
                      /\ \A j \in 1..n : Instant(cs[j].date) <= Instant(cs[i].date)

WorkTypes == {work_patterns[k][2] : k \in 1..Len(work_patterns)}

\* The number of the commits whose lowercased message holds at least one
\* pattern of the work type.
CommitsOfWorkType(cs, type) ==
    Cardinality({i \in 1..Len(cs) :
                    \E k \in 1..Len(work_patterns) :
                        /\ work_patterns[k][2] = type
                        /\ work_patterns[k][1] \in PatternsIn(Lower(cs[i].message))})

\* C19 (as stated): a message counts once for a work category however many
\* patterns of the category it holds, so main_work of a repository ranks the
\* work categories by the number of the repository's commits that match them.
C19_MainWorkRanksByMatchingCommits ==
    Called("generate_repo_summaries") =>
        \A k \in 1..Len(ret[1]) :
            LET cs   == CommitsOf(arg, ret[1][k].name)
                work == ret[1][k].main_work
            IN  /\ Range(work) = {t \in WorkTypes : CommitsOfWorkType(cs, t) > 0}
                /\ \A i, j \in 1..Len(work) :
                      i < j => CommitsOfWorkType(cs, work[i]) >= CommitsOfWorkType(cs, work[j])

\* C20: with an empty email set parse_git_log keeps every well-formed record
\* whatever its author; with a non-empty set it keeps a record if and only if
\* the lowercased email of the record is in the set, so every returned commit
\* has an email of the set.  (A record is kept unless an earlier record that
\* passes the filter has its hash.)
C20_FilterKeepsLowercasedEmailsOfTheSet ==
    Called("parse_git_log") =>
        LET records == arg.output
            filter  == arg.emails
            kept    == ret[1].commits
        IN  /\ filter # {} => \A i \in 1..Len(kept) : kept[i].email \in filter
            /\ \A i \in 1..Len(kept) : \E j \in 1..Len(records) :
                  /\ records[j].nparts = 4
                  /\ Lower(records[j].hash) = kept[i].hash
                  /\ Lower(records[j].email) = kept[i].email
                  /\ filter = {} \/ Lower(records[j].email) \in filter
            /\ \A j \in 1..Len(records) :
                  (/\ WellFormed(records[j])
                   /\ \A e \in 1..(j - 1) :
                         (records[e].nparts = 4 /\ PassesFilter(records[e], filter))
                            => Lower(records[e].hash) # Lower(records[j].hash))
                  => ((\E i \in 1..Len(kept) :
                          /\ kept[i].hash = Lower(records[j].hash)
                          /\ kept[i].email = Lower(records[j].email))
                      <=> (filter = {} \/ Lower(records[j].email) \in filter))

C20_MixedCaseEmailKeptOtherAuthorDropped ==
    /\ Called("parse_git_log")
    /\ arg.emails = {"dev@x.io"}
    /\ Len(arg.output) = 2
    /\ arg.output[1].nparts = 4 /\ arg.output[1].email = "bot@x.io"
    /\ arg.output[1].date_str.valid
    /\ arg.output[2].nparts = 4 /\ arg.output[2].email = "Dev@X.io"
    /\ arg.output[2].hash = arg.output[1].hash
    /\ Len(ret[1].commits) = 1
    /\ ret[1].commits[1].email = "dev@x.io"

\* The six windows of the favorite hour with their badges: <<from, to, name>>
\* stands for from <= hour < to.
HourWindows ==
    <<<<0, 5, "YeMaoZi">>, <<5, 10, "ZaoShuiZaoQiShenTiHao">>,
      <<10, 14, "GanFanRenGanFanHun">>, <<14, 17, "XiaWuChaShiJian">>,
      <<17, 19, "WanCanQianChongCi">>, <<19, 24, "YeJianMoShi">>>>

WindowsOf(hour) ==
    {k \in 1..Len(HourWindows) : HourWindows[k][1] <= hour /\ hour < HourWindows[k][2]}

CommitsAtHour(cs, hour) == Cardinality({i \in 1..Len(cs) : cs[i].date.hour = hour})

\* C21: for a non-empty commit sequence the achievements hold exactly one
\* favorite-hour badge, that of the window of an hour of day with the highest
\* commit count, and every hour 0..23 lies in exactly one of the six windows.
C21_OneFavoriteHourBadge ==
    (Called("analyze_commits") /\ arg # <<>>) =>
        /\ \A hour \in 0..23 : Cardinality(WindowsOf(hour)) = 1
        /\ \E hour \in 0..23 :
              /\ CommitsAtHour(arg, hour) > 0
              /\ \A other \in 0..23 : CommitsAtHour(arg, other) <= CommitsAtHour(arg, hour)
              /\ \A k \in WindowsOf(hour) :
                    BadgesOfCategory(ret[1].achievements, 3) = <<HourWindows[k][3]>>

C21_LateHourOutnumbersFirstHour ==
    /\ Called("analyze_commits")
    /\ Len(arg) = 3
    /\ arg[1].date.hour = 3 /\ arg[2].date.hour = 23 /\ arg[3].date.hour = 23
    /\ BadgesOfCategory(ret[1].achievements, 3) = <<"YeJianMoShi">>

\* C22: in every snapshot returned by analyze_commits,
\* 0 <= current_streak <= max_streak <= active_days, and max_streak >= 1
\* whenever the commit sequence is non-empty.
C22_StreaksOrderedBelowActiveDays ==
    Called("analyze_commits") =>
        /\ 0 <= ret[1].current_streak
        /\ ret[1].current_streak <= ret[1].max_streak
        /\ ret[1].max_streak <= ret[1].active_days
        /\ arg # <<>> => ret[1].max_streak >= 1

C22_RunOfOneDayAmongTwoActiveDays ==
    /\ Called("analyze_commits")
    /\ ret[1].current_streak = 1
    /\ ret[1].max_streak = 1
    /\ ret[1].active_days = 2

Values(dict) == [i \in 1..Len(dict) |-> dict[i][2]]

\* C23: in every snapshot returned by analyze_commits the values of the
\* heatmap, of the hour-of-day mapping and of the weekday mapping each sum to
\* total_commits, and no mapping holds a key with count 0.
C23_MappingsSumToTotalCommits ==
    Called("analyze_commits") =>
        \A mapping \in {ret[1].heatmap, ret[1].commits_by_hour, ret[1].commits_by_weekday} :
            /\ SumSeq(Values(mapping)) = ret[1].total_commits
            /\ \A i \in 1..Len(mapping) : mapping[i][2] # 0

C23_TwoCommitsOfOneDay ==
    /\ Called("analyze_commits")
    /\ ret[1].total_commits = 2
    /\ ret[1].heatmap = <<<<5, 2>>>>
    /\ ret[1].commits_by_hour = <<<<9, 2>>>>
    /\ ret[1].commits_by_weekday = <<<<4, 2>>>>

\* C24: after analyze_repos, every commit counted in total_commits is counted
\* in exactly one repository summary: the commit counts of repo_summaries sum
\* to total_commits and their added and deleted lines sum to
\* total_added_lines and total_deleted_lines.
C24_SummariesAddUpToTotals ==
    stats # <<>> =>
        LET summaries == stats[1].repo_summaries
        IN  /\ SumSeq([i \in 1..Len(summaries) |-> summaries[i].commits])
                  = stats[1].total_commits
            /\ SumSeq([i \in 1..Len(summaries) |-> summaries[i].added_lines])
                  = stats[1].total_added_lines
            /\ SumSeq([i \in 1..Len(summaries) |-> summaries[i].deleted_lines])
                  = stats[1].total_deleted_lines

====
